---- MODULE Spec2Model ----
(***************************************************************************)
(* SENTINEL EVM bytecode decompiler (decompiler/src/main.rs).              *)
(*                                                                         *)
(* The model follows Decompiler::decompile: the disassembler loop runs one *)
(* iteration per step, then ControlFlowGraph::build, then                  *)
(* SecurityAnalyzer::analyze, then the report is assembled.  A Rust panic  *)
(* (index or slice out of range) is the control state "panic".             *)
(*                                                                         *)
(* The functions that decompile does not reach with every argument are     *)
(* called directly: `call` holds the function, its argument and, once the  *)
(* call has been made, what it returned.                                   *)
(*                                                                         *)
(* Rust indices are 0-based; TLA+ sequences are 1-based, so the code's     *)
(* v[k] is written v[k + 1] here and the code's v[lo..hi] is Slice(v,lo,hi)*)
(***************************************************************************)
EXTENDS Integers, Sequences, FiniteSets, TLC

VARIABLES bytecode, pc, i, instructions, cfg, security, output, call

vars == <<bytecode, pc, i, instructions, cfg, security, output, call>>

----------------------------------------------------------------------------
(* u32: the value hi * 2^16 + lo held as two 16-bit limbs, because the     *)
(* model checker's own integers are 32-bit signed                          *)

U32(hi, lo) == [hi |-> hi, lo |-> lo]

\* `n as u32` for a usize n
AsU32(n) == U32((n \div 65536) % 65536, n % 65536)

\* x * c for a small literal c: the wrapped product and the overflow flag
MulU32(x, c) ==
  LET lo == x.lo * c
      hi == x.hi * c + lo \div 65536
  IN  [val |-> U32(hi % 65536, lo % 65536), overflow |-> hi >= 65536]

\* x + y: the wrapped sum and the overflow flag
AddU32(x, y) ==
  LET lo == x.lo + y.lo
      hi == x.hi + y.hi + lo \div 65536
  IN  [val |-> U32(hi % 65536, lo % 65536), overflow |-> hi >= 65536]

----------------------------------------------------------------------------
(* Bounds of the model *)

\* longest input drawn from Alphabet
MaxLen == 4

\* longest immediate of the instructions built directly
MaxImm == 5

\* bytes the enumerated inputs are built from:
\* STOP, EQ, JUMP, JUMPDEST, PUSH1, PUSH2, PUSH4
Alphabet == {0, 20, 86, 91, 96, 97, 99}

----------------------------------------------------------------------------
(* Option<T>: None is the empty tuple, Some(v) the one-element tuple *)

None == <<>>

Some(v) == <<v>>

IsSome(o) == Len(o) = 1

Unwrap(o) == o[1]

\* the code's v[lo..hi] (0-based, half open); defined when SliceOk
Slice(v, lo, hi) == [k \in 1..(hi - lo) |-> v[lo + k]]

\* Rust panics on a range that is reversed or runs past the end
SliceOk(v, lo, hi) == lo <= hi /\ hi <= Len(v)

----------------------------------------------------------------------------
(* enum Opcode with its #[repr(u8)] discriminants *)

OpcodeEnum ==
  { <<"STOP", 0>>, <<"ADD", 1>>, <<"MUL", 2>>, <<"SUB", 3>>, <<"DIV", 4>>,
    <<"SDIV", 5>>, <<"MOD", 6>>, <<"SMOD", 7>>, <<"ADDMOD", 8>>,
    <<"MULMOD", 9>>, <<"EXP", 10>>, <<"SIGNEXTEND", 11>>,
    <<"LT", 16>>, <<"GT", 17>>, <<"SLT", 18>>, <<"SGT", 19>>, <<"EQ", 20>>,
    <<"ISZERO", 21>>, <<"AND", 22>>, <<"OR", 23>>, <<"XOR", 24>>,
    <<"NOT", 25>>, <<"BYTE", 26>>, <<"SHL", 27>>, <<"SHR", 28>>,
    <<"SAR", 29>>,
    <<"SHA3", 32>>,
    <<"ADDRESS", 48>>, <<"BALANCE", 49>>, <<"ORIGIN", 50>>, <<"CALLER", 51>>,
    <<"CALLVALUE", 52>>, <<"CALLDATALOAD", 53>>, <<"CALLDATASIZE", 54>>,
    <<"CALLDATACOPY", 55>>, <<"CODESIZE", 56>>, <<"CODECOPY", 57>>,
    <<"GASPRICE", 58>>, <<"EXTCODESIZE", 59>>, <<"EXTCODECOPY", 60>>,
    <<"RETURNDATASIZE", 61>>, <<"RETURNDATACOPY", 62>>,
    <<"EXTCODEHASH", 63>>,
    <<"BLOCKHASH", 64>>, <<"COINBASE", 65>>, <<"TIMESTAMP", 66>>,
    <<"NUMBER", 67>>, <<"DIFFICULTY", 68>>, <<"GASLIMIT", 69>>,
    <<"CHAINID", 70>>, <<"SELFBALANCE", 71>>, <<"BASEFEE", 72>>,
    <<"POP", 80>>, <<"MLOAD", 81>>, <<"MSTORE", 82>>, <<"MSTORE8", 83>>,
    <<"SLOAD", 84>>, <<"SSTORE", 85>>, <<"JUMP", 86>>, <<"JUMPI", 87>>,
    <<"PC", 88>>, <<"MSIZE", 89>>, <<"GAS", 90>>, <<"JUMPDEST", 91>>,
    <<"PUSH1", 96>>, <<"PUSH2", 97>>, <<"PUSH3", 98>>, <<"PUSH4", 99>>,
    <<"PUSH32", 127>>,
    <<"DUP1", 128>>, <<"DUP16", 143>>,
    <<"SWAP1", 144>>, <<"SWAP16", 159>>,
    <<"LOG0", 160>>, <<"LOG4", 164>>,
    <<"CREATE", 240>>, <<"CALL", 241>>, <<"CALLCODE", 242>>,
    <<"RETURN", 243>>, <<"DELEGATECALL", 244>>, <<"CREATE2", 245>>,
    <<"STATICCALL", 250>>, <<"REVERT", 253>>, <<"INVALID", 254>>,
    <<"SELFDESTRUCT", 255>>,
    <<"UNKNOWN", 254>> }

\* `*self as u8`
Discriminant(opcode) == (CHOOSE e \in OpcodeEnum : e[1] = opcode)[2]

\* impl From<u8> for Opcode
OpcodeFrom(byte) ==
  CASE byte = 0 -> "STOP"
    [] byte = 1 -> "ADD"
    [] byte = 2 -> "MUL"
    [] byte = 3 -> "SUB"
    [] byte = 4 -> "DIV"
    [] byte = 32 -> "SHA3"
    [] byte = 49 -> "BALANCE"
    [] byte = 50 -> "ORIGIN"
    [] byte = 51 -> "CALLER"
    [] byte = 52 -> "CALLVALUE"
    [] byte = 53 -> "CALLDATALOAD"
    [] byte = 84 -> "SLOAD"
    [] byte = 85 -> "SSTORE"
    [] byte = 86 -> "JUMP"
    [] byte = 87 -> "JUMPI"
    [] byte = 91 -> "JUMPDEST"
    [] byte >= 96 /\ byte <= 127 -> "PUSH1"
    [] byte >= 128 /\ byte <= 143 -> "DUP1"
    [] byte >= 144 /\ byte <= 159 -> "SWAP1"
    [] byte = 240 -> "CREATE"
    [] byte = 241 -> "CALL"
    [] byte = 242 -> "CALLCODE"
    [] byte = 243 -> "RETURN"
    [] byte = 244 -> "DELEGATECALL"
    [] byte = 245 -> "CREATE2"
    [] byte = 250 -> "STATICCALL"
    [] byte = 253 -> "REVERT"
    [] byte = 255 -> "SELFDESTRUCT"
    [] OTHER -> "UNKNOWN"

\* Opcode::arg_size: the width is read off the opcode's own discriminant
arg_size(opcode) ==
  LET byte == Discriminant(opcode)
  IN  IF byte >= 96 /\ byte <= 127 THEN byte - 95 ELSE 0

\* Opcode::is_dangerous
is_dangerous(opcode) ==
  opcode \in {"CALL", "CALLCODE", "DELEGATECALL", "SELFDESTRUCT",
              "CREATE", "CREATE2", "SSTORE"}

\* Opcode::is_control_flow
is_control_flow(opcode) ==
  opcode \in {"JUMP", "JUMPI", "STOP", "RETURN", "REVERT", "SELFDESTRUCT"}

----------------------------------------------------------------------------
(* struct Instruction *)

\* Instruction::new
InstructionNew(offset, raw_byte, argument) ==
  [offset |-> offset, opcode |-> OpcodeFrom(raw_byte),
   raw_byte |-> raw_byte, argument |-> argument]

\* arg_as_u32 that copies the immediate to the front of the array
arg_as_u32_RightPadded(instr) ==
  IF ~IsSome(instr.argument) THEN None
  ELSE LET bytes == Unwrap(instr.argument)
       IN  IF Len(bytes) <= 4
           THEN LET arr == [k \in 1..4 |->
                              IF k <= Len(bytes) THEN bytes[k] ELSE 0]
                IN  Some(U32(arr[1] * 256 + arr[2], arr[3] * 256 + arr[4]))
           ELSE None

\* Instruction::arg_as_u32: left-pad to [u8; 4], then u32::from_be_bytes
arg_as_u32(instr) ==
  IF ~IsSome(instr.argument) THEN None
  ELSE LET bytes == Unwrap(instr.argument)
       IN  IF Len(bytes) <= 4
           THEN LET start == 4 - Len(bytes)
                    arr == [k \in 1..4 |->
                              IF k > start THEN bytes[k - start] ELSE 0]
                IN  Some(U32(arr[1] * 256 + arr[2], arr[3] * 256 + arr[4]))
           ELSE None

HexDigits ==
  <<"0", "1", "2", "3", "4", "5", "6", "7",
    "8", "9", "a", "b", "c", "d", "e", "f">>

\* the k-th hex digit of n counted from the least significant, k >= 0
RECURSIVE HexDigitAt(_, _)
HexDigitAt(n, k) == IF k = 0 THEN HexDigits[(n % 16) + 1]
                    ELSE HexDigitAt(n \div 16, k - 1)

\* format!("0x{:08x}", v) for a u32 v
FormatSelector(v) ==
  "0x" \o HexDigitAt(v.hi, 3) \o HexDigitAt(v.hi, 2) \o HexDigitAt(v.hi, 1)
       \o HexDigitAt(v.hi, 0) \o HexDigitAt(v.lo, 3) \o HexDigitAt(v.lo, 2)
       \o HexDigitAt(v.lo, 1) \o HexDigitAt(v.lo, 0)

\* Instruction::arg_as_selector
arg_as_selector(instr) ==
  LET v == arg_as_u32(instr)
  IN  IF IsSome(v) THEN Some(FormatSelector(Unwrap(v))) ELSE None

----------------------------------------------------------------------------
(* Disassembler::disassemble, one iteration of `while i < bytecode.len()` *)

\* LoopPanics with the bound of the full-width branch off by one
\* (`i + arg_size <= bytecode.len()`), which slices one past the end
LoopPanics_GuardOffByOne(b, at) ==
  LET w == arg_size(OpcodeFrom(b[at + 1]))
  IN  \/ at >= Len(b)
      \/ w > 0 /\ at + w <= Len(b) /\ ~SliceOk(b, at + 1, at + 1 + w)
      \/ w > 0 /\ ~(at + w <= Len(b)) /\ Len(b) - at - 1 < 0
      \/ w > 0 /\ ~(at + w <= Len(b)) /\ Len(b) - at - 1 > 0
           /\ ~SliceOk(b, at + 1, Len(b))

\* the iteration indexes or slices out of range (a Rust panic)
LoopPanics(b, at) ==
  LET w == arg_size(OpcodeFrom(b[at + 1]))
  IN  \/ at >= Len(b)
      \/ w > 0 /\ at + w < Len(b) /\ ~SliceOk(b, at + 1, at + 1 + w)
      \/ w > 0 /\ ~(at + w < Len(b)) /\ Len(b) - at - 1 < 0
      \/ w > 0 /\ ~(at + w < Len(b)) /\ Len(b) - at - 1 > 0
           /\ ~SliceOk(b, at + 1, Len(b))

\* `let argument = if ... else if ... else ...`
LoopArgument(b, at) ==
  LET w == arg_size(OpcodeFrom(b[at + 1]))
  IN  IF w > 0 /\ at + w < Len(b)
      THEN Some(Slice(b, at + 1, at + 1 + w))
      ELSE IF w > 0
           THEN LET remaining == Len(b) - at - 1
                IN  IF remaining > 0 THEN Some(Slice(b, at + 1, Len(b)))
                    ELSE None
           ELSE None

\* LoopPush with the cursor advanced before the instruction is recorded
LoopPush_OffsetAfterAdvance(b, at, instrs) ==
  Append(instrs,
         InstructionNew(at + 1 + arg_size(OpcodeFrom(b[at + 1])),
                        b[at + 1], LoopArgument(b, at)))

\* `instructions.push(Instruction::new(i, raw_byte, argument))`
LoopPush(b, at, instrs) ==
  Append(instrs, InstructionNew(at, b[at + 1], LoopArgument(b, at)))

\* `i += 1 + arg_size`
LoopAdvance(b, at) == at + 1 + arg_size(OpcodeFrom(b[at + 1]))

\* the whole function: the instruction vector, or "panic"
RECURSIVE DisassembleFrom(_, _, _)
DisassembleFrom(b, at, instrs) ==
  IF ~(at < Len(b)) THEN instrs
  ELSE IF LoopPanics(b, at) THEN "panic"
  ELSE DisassembleFrom(b, LoopAdvance(b, at), LoopPush(b, at, instrs))

disassemble(b) == DisassembleFrom(b, 0, <<>>)

----------------------------------------------------------------------------
(* ControlFlowGraph::build *)

\* Leaders without the JUMPDEST arm of the match
Leaders_NoJumpdest(instrs) ==
  {0}
  \cup {idx + 1 : idx \in
          {j \in 0..(Len(instrs) - 1) :
             /\ instrs[j + 1].opcode \in
                  {"JUMP", "JUMPI", "STOP", "RETURN", "REVERT",
                   "SELFDESTRUCT"}
             /\ j + 1 < Len(instrs)}}

\* Leaders without the arm for STOP, RETURN, REVERT and SELFDESTRUCT
Leaders_NoTerminators(instrs) ==
  {0}
  \cup {idx \in 0..(Len(instrs) - 1) : instrs[idx + 1].opcode = "JUMPDEST"}
  \cup {idx + 1 : idx \in
          {j \in 0..(Len(instrs) - 1) :
             /\ instrs[j + 1].opcode \in {"JUMP", "JUMPI"}
             /\ j + 1 < Len(instrs)}}

\* `leaders`: the HashSet<usize> after the first loop (sequence indices)
Leaders(instrs) ==
  {0}
  \cup {idx \in 0..(Len(instrs) - 1) : instrs[idx + 1].opcode = "JUMPDEST"}
  \cup {idx + 1 : idx \in
          {j \in 0..(Len(instrs) - 1) :
             /\ instrs[j + 1].opcode \in {"JUMP", "JUMPI"}
             /\ j + 1 < Len(instrs)}}
  \cup {idx + 1 : idx \in
          {j \in 0..(Len(instrs) - 1) :
             /\ instrs[j + 1].opcode \in
                  {"STOP", "RETURN", "REVERT", "SELFDESTRUCT"}
             /\ j + 1 < Len(instrs)}}

\* every sequence that lists the members of S once each
RECURSIVE Orders(_)
Orders(S) ==
  IF S = {} THEN {<<>>}
  ELSE UNION {{<<x>> \o p : p \in Orders(S \ {x})} : x \in S}

\* `leaders.into_iter().collect()`: a HashSet yields its members in an
\* order that differs from run to run, so every order is possible
Collected(S) == Orders(S)

\* SortedLeaders without the call of sort
SortedLeaders_Unsorted(c) == c

\* `sorted_leaders.sort()`
RECURSIVE SortedLeaders(_)
SortedLeaders(c) ==
  IF c = <<>> THEN <<>>
  ELSE LET m == CHOOSE k \in 1..Len(c) : \A j \in 1..Len(c) : c[k] <= c[j]
       IN  <<c[m]>>
             \o SortedLeaders(SubSeq(c, 1, m - 1) \o SubSeq(c, m + 1, Len(c)))

\* HashMap::insert
MapInsert(m, k, v) ==
  [x \in (DOMAIN m) \cup {k} |-> IF x = k THEN v ELSE m[x]]

\* `end` of the block that starts at sorted_leaders[k] (k 0-based)
BlockEnd(instrs, sl, k) ==
  IF k + 1 < Len(sl) THEN sl[k + 2] ELSE Len(instrs)

\* the loop body indexes or slices out of range (a Rust panic)
BlockPanics(instrs, sl, k) ==
  LET start == sl[k + 1]
  IN  \/ ~SliceOk(instrs, start, BlockEnd(instrs, sl, k))
      \/ start >= Len(instrs)

\* BasicBlock whose is_return looks for RETURN only, not STOP
BasicBlock_StopNotReturn(instrs, sl, k) ==
  LET start == sl[k + 1]
      block_instructions == Slice(instrs, start, BlockEnd(instrs, sl, k))
      n == Len(block_instructions)
  IN  [start_offset |-> instrs[start + 1].offset,
       end_offset |-> IF n > 0 THEN block_instructions[n].offset ELSE 0,
       instructions |-> block_instructions,
       is_entry |-> (start = 0),
       is_revert |-> (n > 0 /\ block_instructions[n].opcode = "REVERT"),
       is_return |-> (n > 0 /\ block_instructions[n].opcode = "RETURN")]

\* `let block = BasicBlock { ... }`
BasicBlock(instrs, sl, k) ==
  LET start == sl[k + 1]
      block_instructions == Slice(instrs, start, BlockEnd(instrs, sl, k))
      n == Len(block_instructions)
  IN  [start_offset |-> instrs[start + 1].offset,
       end_offset |-> IF n > 0 THEN block_instructions[n].offset ELSE 0,
       instructions |-> block_instructions,
       is_entry |-> (start = 0),
       is_revert |-> (n > 0 /\ block_instructions[n].opcode = "REVERT"),
       is_return |-> (n > 0 /\ block_instructions[n].opcode
                                  \in {"RETURN", "STOP"})]

\* AddBlock without the `if start == 0` around `cfg.entry = Some(node)`
AddBlock_EntryAlways(g, instrs, sl, k) ==
  LET start == sl[k + 1]
      node == Len(g.graph)
  IN  [graph |-> Append(g.graph, BasicBlock(instrs, sl, k)),
       edges |-> g.edges,
       entry |-> Some(node),
       blocks |-> MapInsert(g.blocks, instrs[start + 1].offset, node)]

\* one iteration of `for (i, &start) in sorted_leaders.iter().enumerate()`
AddBlock(g, instrs, sl, k) ==
  LET start == sl[k + 1]
      node == Len(g.graph)
  IN  [graph |-> Append(g.graph, BasicBlock(instrs, sl, k)),
       edges |-> g.edges,
       entry |-> IF start = 0 THEN Some(node) ELSE g.entry,
       blocks |-> MapInsert(g.blocks, instrs[start + 1].offset, node)]

RECURSIVE BuildFrom(_, _, _, _)
BuildFrom(g, instrs, sl, k) ==
  IF ~(k < Len(sl)) THEN [panic |-> FALSE, val |-> g]
  ELSE IF BlockPanics(instrs, sl, k) THEN [panic |-> TRUE]
  ELSE BuildFrom(AddBlock(g, instrs, sl, k), instrs, sl, k + 1)

\* the whole function: the set of its possible outcomes, one for each
\* order of collection, each [panic |-> FALSE, val |-> cfg] or
\* [panic |-> TRUE]
build(instrs) ==
  {BuildFrom([graph |-> <<>>, edges |-> {}, entry |-> None,
              blocks |-> <<>>],
             instrs, sorted_leaders, 0) :
     sorted_leaders \in
       {SortedLeaders(c) : c \in Collected(Leaders(instrs))}}

\* ControlFlowGraph::block_count
block_count(g) == Len(g.graph)

----------------------------------------------------------------------------
(* SecurityAnalyzer::analyze *)

\* `for window in instructions.windows(2)`, from window k (0-based) on
RECURSIVE Selectors(_, _, _)
Selectors(instrs, k, selectors) ==
  IF k + 2 > Len(instrs) THEN selectors
  ELSE LET instr == instrs[k + 1]
           next == instrs[k + 2]
           selector == arg_as_selector(instr)
       IN  Selectors(instrs, k + 1,
             IF instr.raw_byte = 99 /\ next.raw_byte = 20 /\ IsSome(selector)
             THEN Append(selectors, Unwrap(selector))
             ELSE selectors)

DangerousOpcode(offset, opcode, risk) ==
  [offset |-> offset, opcode |-> opcode, risk |-> risk]

RiskIndicator(name, severity, description) ==
  [name |-> name, severity |-> severity, description |-> description]

\* the body of `match instr.opcode` applied to the accumulators a
PerInstruction(a, instr) ==
  CASE instr.opcode \in {"CALL", "CALLCODE", "STATICCALL"} ->
         [a EXCEPT !.external_calls = @ + 1,
                   !.dangerous = Append(@,
                     DangerousOpcode(instr.offset, instr.opcode,
                       "External call - potential reentrancy"))]
    [] instr.opcode = "DELEGATECALL" ->
         [a EXCEPT !.has_delegatecall = TRUE,
                   !.external_calls = @ + 1,
                   !.dangerous = Append(@,
                     DangerousOpcode(instr.offset, "DELEGATECALL",
                       "Delegatecall - storage manipulation risk"))]
    [] instr.opcode = "SSTORE" ->
         [a EXCEPT !.storage_writes = @ + 1]
    [] instr.opcode = "SELFDESTRUCT" ->
         [a EXCEPT !.has_selfdestruct = TRUE,
                   !.dangerous = Append(@,
                     DangerousOpcode(instr.offset, "SELFDESTRUCT",
                       "Contract can be destroyed")),
                   !.risks = Append(@,
                     RiskIndicator("Self-destruct capability", "critical",
                       "Contract can be destroyed, all funds sent to owner"))]
    [] instr.opcode \in {"CREATE", "CREATE2"} ->
         [a EXCEPT !.has_create = TRUE,
                   !.dangerous = Append(@,
                     DangerousOpcode(instr.offset, instr.opcode,
                       "Creates new contract"))]
    [] OTHER -> a

\* `for instr in instructions`, from index k (0-based) on
RECURSIVE Pass(_, _, _)
Pass(a, instrs, k) ==
  IF ~(k < Len(instrs)) THEN a
  ELSE Pass(PerInstruction(a, instrs[k + 1]), instrs, k + 1)

\* the u32 expression `B as u32 * 10 + E as u32 * 20 + W as u32 * 5`.
\* On overflow a build with overflow checks panics and one without wraps,
\* so both outcomes are possible.
ComplexityOutcomes(B, E, W) ==
  LET p1 == MulU32(AsU32(B), 10)
      p2 == MulU32(AsU32(E), 20)
      s1 == AddU32(p1.val, p2.val)
      p3 == MulU32(AsU32(W), 5)
      s2 == AddU32(s1.val, p3.val)
  IN  IF p1.overflow \/ p2.overflow \/ s1.overflow
           \/ p3.overflow \/ s2.overflow
      THEN {[panic |-> TRUE], [panic |-> FALSE, val |-> s2.val]}
      ELSE {[panic |-> FALSE, val |-> s2.val]}

\* PostPassRisks with the two checks in the other order
PostPassRisks_CallsFirst(a) ==
  LET r1 == IF a.external_calls > 5
            THEN Append(a.risks,
                   RiskIndicator("Multiple external calls", "medium",
                     ToString(a.external_calls)
                       \o " external calls - check for reentrancy"))
            ELSE a.risks
  IN  IF a.has_delegatecall
      THEN Append(r1,
             RiskIndicator("Delegatecall usage", "high",
               "Contract uses delegatecall - verify upgrade mechanism"))
      ELSE r1

\* PostPassRisks with the threshold `external_calls >= 5`
PostPassRisks_AtLeastFive(a) ==
  LET r1 == IF a.has_delegatecall
            THEN Append(a.risks,
                   RiskIndicator("Delegatecall usage", "high",
                     "Contract uses delegatecall - verify upgrade mechanism"))
            ELSE a.risks
  IN  IF a.external_calls >= 5
      THEN Append(r1,
             RiskIndicator("Multiple external calls", "medium",
               ToString(a.external_calls)
                 \o " external calls - check for reentrancy"))
      ELSE r1

\* the risk indicators appended after the pass
PostPassRisks(a) ==
  LET r1 == IF a.has_delegatecall
            THEN Append(a.risks,
                   RiskIndicator("Delegatecall usage", "high",
                     "Contract uses delegatecall - verify upgrade mechanism"))
            ELSE a.risks
  IN  IF a.external_calls > 5
      THEN Append(r1,
             RiskIndicator("Multiple external calls", "medium",
               ToString(a.external_calls)
                 \o " external calls - check for reentrancy"))
      ELSE r1

\* the whole function: the set of its possible outcomes, each
\* [panic |-> FALSE, val |-> SecurityAnalysis] or [panic |-> TRUE]
analyze(instrs) ==
  LET selectors == Selectors(instrs, 0, <<>>)
      a == Pass([dangerous |-> <<>>, external_calls |-> 0,
                 storage_writes |-> 0, has_selfdestruct |-> FALSE,
                 has_delegatecall |-> FALSE, has_create |-> FALSE,
                 risks |-> <<>>], instrs, 0)
  IN  UNION {
        IF g.panic THEN {[panic |-> TRUE]}
        ELSE {IF c.panic THEN [panic |-> TRUE]
              ELSE [panic |-> FALSE,
                    val |-> [function_selectors |-> selectors,
                             dangerous_opcodes |-> a.dangerous,
                             external_calls |-> a.external_calls,
                             storage_writes |-> a.storage_writes,
                             has_selfdestruct |-> a.has_selfdestruct,
                             has_delegatecall |-> a.has_delegatecall,
                             has_create |-> a.has_create,
                             complexity_score |-> c.val,
                             risk_indicators |-> PostPassRisks(a)]] :
              c \in ComplexityOutcomes(block_count(g.val), a.external_calls,
                                       a.storage_writes)} :
        g \in build(instrs)}

----------------------------------------------------------------------------
(* Inputs *)

\* all byte sequences over Alphabet of length 0..MaxLen
Enumerated == UNION {[1..n -> Alphabet] : n \in 0..MaxLen}

\* PUSH32 followed by 32 bytes 0xAB (test_disassemble_push32)
Push32Input == [k \in 1..33 |-> IF k = 1 THEN 127 ELSE 171]

\* the first 54 bytes of the ERC-20 dispatcher snippet of
\* test_full_analysis_pipeline, which give six leaders
Erc20Prefix ==
  <<96, 128, 96, 64, 82, 52, 128, 21, 96, 15, 87, 96, 0, 128, 253, 91,
    80, 96, 4, 54, 16, 96, 60, 87, 96, 0, 53, 96, 224, 28, 128, 99,
    64, 193, 15, 25, 20, 96, 65, 87, 128, 99, 112, 160, 130, 49, 20, 96,
    101, 87, 128, 99, 132, 86>>

\* the inputs of the repository's tests and of the documented scenarios
Scenarios ==
  { <<0>>,
    <<96, 96, 96, 64, 82>>,
    <<99, 18, 52, 86, 120, 20>>,
    <<255>>,
    <<241, 250, 241>>,
    <<99, 18, 52, 86>>,
    <<99, 18, 52>>,
    <<97, 0, 255>>,
    <<96, 4, 86, 91, 0>>,
    <<96, 0, 96, 8, 87, 96, 1, 0, 91, 0>>,
    <<99, 18, 52, 86, 120, 20, 99, 171, 205, 239, 0, 20>>,
    <<244>>, <<240, 245>>, <<85, 85>>, <<1, 2, 3, 4>>,
    <<99, 20, 20, 99, 20, 20>>,
    <<99, 18, 20, 99, 52, 20, 0, 99, 18, 20>>,
    <<96, 0, 96, 0, 243, 91, 96, 0, 253>>,
    <<91, 243, 253, 0, 86, 91, 87, 1>>,
    <<255, 1, 255, 91>>,
    Push32Input,
    Erc20Prefix }

Inputs == Enumerated \cup Scenarios

\* bytes the inputs of the security analysis are built from:
\* ADD, SSTORE, PUSH1, CREATE, CALL, DELEGATECALL, STATICCALL, SELFDESTRUCT
SecAlphabet == {1, 85, 96, 240, 241, 244, 250, 255}

\* all byte sequences over SecAlphabet of length 0..MaxLen
SecEnumerated == UNION {[1..n -> SecAlphabet] : n \in 0..MaxLen}

\* longer streams: CALLCODE and CREATE2, five, six and seven external
\* calls, and all three kinds of risk indicator out of stream order
SecScenarios ==
  { <<242, 245, 85>>,
    <<241, 242, 244, 250, 241>>,
    <<241, 242, 244, 250, 241, 250>>,
    <<241, 241, 241, 241, 241, 241>>,
    <<250, 85, 241, 242, 1, 241, 241, 85, 250, 242>>,
    <<241, 244, 241, 255, 250, 242, 0, 241, 255, 85>>,
    <<244, 244, 241, 241, 241, 241, 91, 255>>,
    <<241, 96, 255, 85, 250, 240, 1, 244>> }

SecInputs == SecEnumerated \cup SecScenarios \cup Scenarios

----------------------------------------------------------------------------
(* Decompiler::decompile as a state machine *)

\* no function is called directly
NoCall == [fn |-> "", arg |-> <<>>, ret |-> None]

Init ==
  /\ bytecode \in Inputs
  /\ pc = "disassemble"
  /\ i = 0
  /\ instructions = <<>>
  /\ cfg = None
  /\ security = None
  /\ output = None
  /\ call = NoCall

\* one iteration of the disassembler's while loop
DisassembleLoop ==
  /\ pc = "disassemble"
  /\ i < Len(bytecode)
  /\ IF LoopPanics(bytecode, i)
     THEN /\ pc' = "panic"
          /\ UNCHANGED <<i, instructions>>
     ELSE /\ instructions' = LoopPush(bytecode, i, instructions)
          /\ i' = LoopAdvance(bytecode, i)
          /\ pc' = pc
  /\ UNCHANGED call
  /\ UNCHANGED <<bytecode, cfg, security, output>>

\* the loop condition fails: `Ok(instructions)`
DisassembleReturn ==
  /\ pc = "disassemble"
  /\ ~(i < Len(bytecode))
  /\ pc' = "build"
  /\ UNCHANGED call
  /\ UNCHANGED <<bytecode, i, instructions, cfg, security, output>>

\* `let cfg = ControlFlowGraph::build(&instructions);`
Build ==
  /\ pc = "build"
  /\ \E r \in build(instructions) :
       IF r.panic
       THEN /\ pc' = "panic"
            /\ cfg' = cfg
       ELSE /\ pc' = "analyze"
            /\ cfg' = Some(r.val)
  /\ UNCHANGED call
  /\ UNCHANGED <<bytecode, i, instructions, security, output>>

\* `let security = SecurityAnalyzer::analyze(&instructions);`
Analyze ==
  /\ pc = "analyze"
  /\ \E r \in analyze(instructions) :
       IF r.panic
       THEN /\ pc' = "panic"
            /\ security' = security
       ELSE /\ pc' = "report"
            /\ security' = Some(r.val)
  /\ UNCHANGED call
  /\ UNCHANGED <<bytecode, i, instructions, cfg, output>>

\* DecompileReturn that reports the number of bytes as instruction_count
DecompileReturn_CountsBytes ==
  /\ pc = "report"
  /\ output' = Some([bytecode_size |-> Len(bytecode),
                     instruction_count |-> Len(bytecode),
                     block_count |-> block_count(Unwrap(cfg)),
                     security |-> Unwrap(security)])
  /\ pc' = "done"
  /\ UNCHANGED call
  /\ UNCHANGED <<bytecode, i, instructions, cfg, security>>

\* `Ok(DecompilerOutput { ... })`; the Keccak-256 digest is an external
\* primitive and is left out of the record
DecompileReturn ==
  /\ pc = "report"
  /\ output' = Some([bytecode_size |-> Len(bytecode),
                     instruction_count |-> Len(instructions),
                     block_count |-> block_count(Unwrap(cfg)),
                     security |-> Unwrap(security)])
  /\ pc' = "done"
  /\ UNCHANGED call
  /\ UNCHANGED <<bytecode, i, instructions, cfg, security>>

Next ==
  \/ DisassembleLoop
  \/ DisassembleReturn
  \/ Build
  \/ Analyze
  \/ DecompileReturn

Spec == Init /\ [][Next]_vars

\* the same program started on the inputs of the security analysis
SecInit ==
  /\ bytecode \in SecInputs
  /\ pc = "disassemble"
  /\ i = 0
  /\ instructions = <<>>
  /\ cfg = None
  /\ security = None
  /\ output = None
  /\ call = NoCall

SecSpec == SecInit /\ [][Next]_vars

----------------------------------------------------------------------------
(* Direct calls of the pure functions *)

\* numbers of blocks, external calls and storage writes: small ones, and
\* the largest that the weights 10, 20 and 5 take to 2^32 - 1 or below
\* together with their successors
Counts ==
  {0, 1, 6, 214748364, 214748365, 429496729, 429496730, 858993459,
   858993460}

\* bytes the immediates of the directly built instructions are made of
ImmBytes == {0, 18, 52, 255}

\* PUSH4 instructions built with Instruction::new: without an immediate,
\* and with every immediate over ImmBytes of length 0..MaxImm
BuiltInstructions ==
  {InstructionNew(0, 99, None)}
  \cup {InstructionNew(0, 99, Some(bytes)) :
          bytes \in UNION {[1..n -> ImmBytes] : n \in 0..MaxImm}}

\* instruction slices analyze is called on: the empty slice, what
\* disassemble returns for the scenario inputs, and slices built with
\* Instruction::new whose PUSH4 has no immediate, a four-byte immediate and
\* a two-byte immediate before an EQ
AnalyzedSequences ==
  {disassemble(b) : b \in {<<>>} \cup SecScenarios \cup Scenarios}
  \cup { <<InstructionNew(0, 99, None), InstructionNew(1, 20, None)>>,
         <<InstructionNew(0, 99, Some(<<18, 52, 86, 120>>)),
           InstructionNew(5, 20, None),
           InstructionNew(6, 99, None),
           InstructionNew(7, 20, None),
           InstructionNew(8, 99, Some(<<18, 52, 86, 120>>)),
           InstructionNew(13, 20, None)>>,
         <<InstructionNew(0, 99, Some(<<171, 205>>)),
           InstructionNew(3, 20, None),
           InstructionNew(4, 241, None),
           InstructionNew(5, 85, None),
           InstructionNew(6, 255, None)>> }

\* the calls that are made: the complexity expression of analyze on three
\* counts, Opcode::is_dangerous on every variant, Opcode::from on every u8,
\* arg_as_u32 and arg_as_selector on every built instruction, and analyze
\* on every slice of AnalyzedSequences
UnitCalls ==
  {[fn |-> "complexity_score", arg |-> <<B, E, W>>, ret |-> None] :
     B \in Counts, E \in Counts, W \in Counts}
  \cup {[fn |-> "is_dangerous", arg |-> e[1], ret |-> None] :
          e \in OpcodeEnum}
  \cup {[fn |-> "from", arg |-> byte, ret |-> None] : byte \in 0..255}
  \cup {[fn |-> "arg_as_u32", arg |-> instr, ret |-> None] :
          instr \in BuiltInstructions}
  \cup {[fn |-> "arg_as_selector", arg |-> instr, ret |-> None] :
          instr \in BuiltInstructions}
  \cup {[fn |-> "analyze", arg |-> instrs, ret |-> None] :
          instrs \in AnalyzedSequences}

UnitInit ==
  /\ call \in UnitCalls
  /\ bytecode = <<>>
  /\ pc = "call"
  /\ i = 0
  /\ instructions = <<>>
  /\ cfg = None
  /\ security = None
  /\ output = None

\* `let complexity_score = ...` of analyze, for B blocks, E external calls
\* and W storage writes
CallComplexity ==
  /\ pc = "call"
  /\ call.fn = "complexity_score"
  /\ \E r \in ComplexityOutcomes(call.arg[1], call.arg[2], call.arg[3]) :
       call' = [call EXCEPT !.ret = Some(r)]
  /\ pc' = "returned"
  /\ UNCHANGED <<bytecode, i, instructions, cfg, security, output>>

\* `opcode.is_dangerous()`
CallIsDangerous ==
  /\ pc = "call"
  /\ call.fn = "is_dangerous"
  /\ call' = [call EXCEPT !.ret = Some(is_dangerous(call.arg))]
  /\ pc' = "returned"
  /\ UNCHANGED <<bytecode, i, instructions, cfg, security, output>>

\* `Opcode::from(byte)`
CallOpcodeFrom ==
  /\ pc = "call"
  /\ call.fn = "from"
  /\ call' = [call EXCEPT !.ret = Some(OpcodeFrom(call.arg))]
  /\ pc' = "returned"
  /\ UNCHANGED <<bytecode, i, instructions, cfg, security, output>>

\* `instr.arg_as_u32()`
CallArgAsU32 ==
  /\ pc = "call"
  /\ call.fn = "arg_as_u32"
  /\ call' = [call EXCEPT !.ret = Some(arg_as_u32(call.arg))]
  /\ pc' = "returned"
  /\ UNCHANGED <<bytecode, i, instructions, cfg, security, output>>

\* `instr.arg_as_selector()`
CallArgAsSelector ==
  /\ pc = "call"
  /\ call.fn = "arg_as_selector"
  /\ call' = [call EXCEPT !.ret = Some(arg_as_selector(call.arg))]
  /\ pc' = "returned"
  /\ UNCHANGED <<bytecode, i, instructions, cfg, security, output>>

\* `SecurityAnalyzer::analyze(&instructions)`: one of its outcomes, a
\* returned SecurityAnalysis or a panic
CallAnalyze ==
  /\ pc = "call"
  /\ call.fn = "analyze"
  /\ \E r \in analyze(call.arg) :
       call' = [call EXCEPT !.ret = Some(r)]
  /\ pc' = "returned"
  /\ UNCHANGED <<bytecode, i, instructions, cfg, security, output>>

UnitNext ==
  \/ CallComplexity
  \/ CallIsDangerous
  \/ CallOpcodeFrom
  \/ CallArgAsU32
  \/ CallArgAsSelector
  \/ CallAnalyze

UnitSpec == UnitInit /\ [][UnitNext]_vars

----------------------------------------------------------------------------
(* Disassembler claims *)

\* C1: for every byte sequence, disassemble terminates and returns a value
\* without panicking: every loop iteration is taken with i < len(b), keeps
\* running the disassembler and strictly increases the cursor i (so that
\* len(b) - i is a variant), and once i >= len(b) the loop ends and the
\* function returns the instructions.
C1_DisassembleTotal ==
  [][pc = "disassemble" =>
       IF i < Len(bytecode)
       THEN pc' = "disassemble" /\ i' > i /\ bytecode' = bytecode
       ELSE pc' = "build" /\ instructions' = instructions]_vars

\* disassemble has returned after at least two iterations, the last of
\* which (a PUSH at the end of the input) moved the cursor past the end
C1_Witness ==
  /\ pc = "build"
  /\ Len(instructions) >= 2
  /\ i > Len(bytecode)

\* C2: the offsets returned by disassemble(b) are strictly increasing, the
\* first offset (if any) is 0, the final offset is < len(b), and the result
\* is non-empty whenever b is non-empty.
C2_OffsetsMonotone ==
  pc # "disassemble" =>
    /\ \A k \in 1..(Len(instructions) - 1) :
         instructions[k].offset < instructions[k + 1].offset
    /\ Len(instructions) > 0 =>
         /\ instructions[1].offset = 0
         /\ instructions[Len(instructions)].offset < Len(bytecode)
    /\ Len(bytecode) > 0 => Len(instructions) > 0

\* disassemble has returned three or more instructions, one of them a PUSH
\* with an immediate, so the offsets are not simply 0, 1, 2, ...
C2_Witness ==
  /\ pc = "build"
  /\ Len(instructions) >= 3
  /\ \E k \in 1..Len(instructions) :
       /\ IsSome(instructions[k].argument)
       /\ k < Len(instructions)
       /\ instructions[k + 1].offset = instructions[k].offset + 2

\* C3: at a PUSHn byte (0x60 <= b <= 0x7F, n = b - 0x5F) with at least n
\* bytes following, the iteration emits exactly one instruction whose
\* immediate is the next n bytes and advances the cursor by 1 + n.
C3_PushFullWidth ==
  [][(/\ pc = "disassemble"
      /\ i < Len(bytecode)
      /\ bytecode[i + 1] >= 96
      /\ bytecode[i + 1] <= 127
      /\ i + (bytecode[i + 1] - 95) < Len(bytecode))
     => LET n == bytecode[i + 1] - 95
        IN  /\ Len(instructions') = Len(instructions) + 1
            /\ instructions'[Len(instructions')].argument
                 = Some(Slice(bytecode, i + 1, i + 1 + n))
            /\ i' = i + 1 + n]_vars

\* C4: a PUSHn of width w followed by k bytes, 0 < k < w, before the end of
\* the input is emitted as one final instruction whose immediate is exactly
\* those k bytes, and nothing is emitted after it.
C4_TruncatedPush ==
  [][(/\ pc = "disassemble"
      /\ i < Len(bytecode)
      /\ bytecode[i + 1] >= 96
      /\ bytecode[i + 1] <= 127
      /\ Len(bytecode) - i - 1 > 0
      /\ Len(bytecode) - i - 1 < bytecode[i + 1] - 95)
     => /\ Len(instructions') = Len(instructions) + 1
        /\ instructions'[Len(instructions')].argument
             = Some(Slice(bytecode, i + 1, Len(bytecode)))
        /\ ~(i' < Len(bytecode))]_vars

\* C5: the sum over the instructions of 1 + immediate_width(raw_byte), with
\* immediate_width(r) = r - 0x5F for 0x60 <= r <= 0x7F and 0 otherwise,
\* equals len(b), unless the final instruction is a truncated PUSH whose
\* immediate is strictly shorter than its width.
C5_WidthSum ==
  LET width(r) == IF r >= 96 /\ r <= 127 THEN r - 95 ELSE 0
      RECURSIVE sum(_)
      sum(k) == IF k = 0 THEN 0
                ELSE sum(k - 1) + 1 + width(instructions[k].raw_byte)
      n == Len(instructions)
      immLen == IF IsSome(instructions[n].argument)
                THEN Len(Unwrap(instructions[n].argument)) ELSE 0
      truncated == n > 0 /\ immLen < width(instructions[n].raw_byte)
  IN  pc # "disassemble" => (truncated \/ sum(n) = Len(bytecode))

\* C6: whenever a PUSH4 byte (0x63) at an instruction boundary is followed
\* by four immediate bytes a b c d and then an EQ byte (0x14),
\* function_selectors contains "0x" followed by the eight lowercase hex
\* digits of a b c d.
C6_SelectorDetected ==
  LET hex(x) == HexDigits[(x \div 16) + 1] \o HexDigits[(x % 16) + 1]
  IN  pc \notin {"disassemble", "build", "analyze"} =>
        \A k \in 1..Len(instructions) :
          LET p == instructions[k].offset
          IN  (/\ bytecode[p + 1] = 99
               /\ p + 5 < Len(bytecode)
               /\ bytecode[p + 6] = 20)
              => /\ IsSome(security)
                 /\ \E j \in 1..Len(Unwrap(security).function_selectors) :
                      Unwrap(security).function_selectors[j]
                        = "0x" \o hex(bytecode[p + 2]) \o hex(bytecode[p + 3])
                               \o hex(bytecode[p + 4]) \o hex(bytecode[p + 5])

----------------------------------------------------------------------------
(* Control-flow graph claims *)

\* C7: on an empty instruction stream build returns a graph with zero
\* blocks and entry = None without failing, and decompile on the empty byte
\* slice returns a report with instruction_count = 0, block_count = 0 and
\* an empty selector list without crashing.
C7_EmptyInput ==
  (Len(bytecode) = 0 /\ pc \notin {"disassemble", "build"}) =>
    /\ pc # "panic"
    /\ IsSome(cfg)
    /\ block_count(Unwrap(cfg)) = 0
    /\ Unwrap(cfg).entry = None
    /\ pc = "done" =>
         /\ Unwrap(output).instruction_count = 0
         /\ Unwrap(output).block_count = 0
         /\ Unwrap(output).security.function_selectors = <<>>

\* C8: over a non-empty instruction sequence, the instruction at sequence
\* index k is the first instruction of some block if and only if k = 0, or
\* its opcode is JUMPDEST, or k >= 1 and the opcode at k - 1 is JUMP, JUMPI,
\* STOP, RETURN, REVERT or SELFDESTRUCT.
C8_Leaders ==
  (Len(instructions) > 0 /\ pc \notin {"disassemble", "build"}) =>
    /\ IsSome(cfg)
    /\ \A k \in 0..(Len(instructions) - 1) :
         (\E n \in 1..Len(Unwrap(cfg).graph) :
            /\ Len(Unwrap(cfg).graph[n].instructions) > 0
            /\ Unwrap(cfg).graph[n].instructions[1] = instructions[k + 1])
         <=>
         \/ k = 0
         \/ instructions[k + 1].opcode = "JUMPDEST"
         \/ /\ k >= 1
            /\ instructions[k].opcode \in
                 {"JUMP", "JUMPI", "STOP", "RETURN", "REVERT", "SELFDESTRUCT"}

\* build has returned three or more blocks for a sequence that has a
\* JUMPDEST not preceded by a terminator, an instruction that follows a
\* terminator and is no JUMPDEST, and an instruction that is no leader
C8_Witness ==
  /\ pc = "analyze"
  /\ IsSome(cfg)
  /\ block_count(Unwrap(cfg)) >= 3
  /\ \E k \in 1..(Len(instructions) - 1) :
       /\ instructions[k + 1].opcode = "JUMPDEST"
       /\ ~is_control_flow(instructions[k].opcode)
  /\ \E k \in 1..(Len(instructions) - 1) :
       /\ instructions[k + 1].opcode # "JUMPDEST"
       /\ is_control_flow(instructions[k].opcode)
  /\ \E k \in 1..(Len(instructions) - 1) :
       /\ instructions[k + 1].opcode # "JUMPDEST"
       /\ ~is_control_flow(instructions[k].opcode)

\* C9: for every instruction sequence, build produces blocks that each
\* contain at least one instruction, do not overlap, and concatenated in
\* ascending start order reproduce the whole instruction sequence exactly;
\* hence block_count <= number of instructions.
C9_BlocksPartition ==
  pc \notin {"disassemble", "build"} =>
    /\ IsSome(cfg)
    /\ LET g == Unwrap(cfg).graph
           RECURSIVE concat(_)
           concat(n) == IF n = 0 THEN <<>>
                        ELSE concat(n - 1) \o g[n].instructions
       IN  /\ \A n \in 1..Len(g) : Len(g[n].instructions) >= 1
           /\ \A n \in 1..(Len(g) - 1) :
                g[n].end_offset < g[n + 1].start_offset
           /\ concat(Len(g)) = instructions
           /\ Len(g) <= Len(instructions)

\* C10 as stated: for every byte sequence b, in build_cfg(disassemble(b))
\* exactly one block has is_entry = true; it is the block cfg.entry
\* designates and it contains sequence index 0 (start_offset 0); every
\* other block has is_entry = false.
C10_OneEntryEveryInput ==
  pc \notin {"disassemble", "build"} =>
    /\ IsSome(cfg)
    /\ LET g == Unwrap(cfg).graph
       IN  /\ Cardinality({n \in 1..Len(g) : g[n].is_entry}) = 1
           /\ IsSome(Unwrap(cfg).entry)
           /\ \A n \in 1..Len(g) :
                g[n].is_entry <=>
                  /\ n = Unwrap(Unwrap(cfg).entry) + 1
                  /\ g[n].start_offset = 0
                  /\ g[n].instructions[1] = instructions[1]

\* C10 amended: the same for every non-empty byte sequence b.
C10_OneEntryNonEmpty ==
  (Len(bytecode) > 0 /\ pc \notin {"disassemble", "build"}) =>
    /\ IsSome(cfg)
    /\ LET g == Unwrap(cfg).graph
       IN  /\ Cardinality({n \in 1..Len(g) : g[n].is_entry}) = 1
           /\ IsSome(Unwrap(cfg).entry)
           /\ \A n \in 1..Len(g) :
                g[n].is_entry <=>
                  /\ n = Unwrap(Unwrap(cfg).entry) + 1
                  /\ g[n].start_offset = 0
                  /\ g[n].instructions[1] = instructions[1]

\* build has returned two or more blocks, of which the first is the entry
C10_Witness ==
  /\ pc = "analyze"
  /\ IsSome(cfg)
  /\ block_count(Unwrap(cfg)) >= 2
  /\ Unwrap(cfg).entry = Some(0)
  /\ Unwrap(cfg).graph[1].is_entry
  /\ ~Unwrap(cfg).graph[2].is_entry

----------------------------------------------------------------------------
(* Security analysis claims *)

\* C11: for every instruction sequence, analyze returns, and the analysis
\* it returns has external_calls equal to the number of instructions whose
\* opcode is CALL, CALLCODE, DELEGATECALL or STATICCALL (bytes 0xF1, 0xF2,
\* 0xF4, 0xFA) and storage_writes equal to the number of instructions whose
\* opcode is SSTORE (byte 0x55).
C11_Counts ==
  (call.fn = "analyze" /\ IsSome(call.ret)) =>
    /\ ~Unwrap(call.ret).panic
    /\ Unwrap(call.ret).val.external_calls
         = Cardinality({k \in 1..Len(call.arg) :
                          call.arg[k].raw_byte \in {241, 242, 244, 250}})
    /\ Unwrap(call.ret).val.storage_writes
         = Cardinality({k \in 1..Len(call.arg) :
                          call.arg[k].raw_byte = 85})

\* C12: for every instruction sequence, analyze returns, and in the
\* analysis it returns has_selfdestruct is true iff some instruction is
\* SELFDESTRUCT (0xFF), has_delegatecall is true iff some instruction is
\* DELEGATECALL (0xF4), and has_create is true iff some instruction is
\* CREATE or CREATE2 (0xF0, 0xF5); a sequence with none of these has all
\* three flags false.
C12_Flags ==
  (call.fn = "analyze" /\ IsSome(call.ret)) =>
    /\ ~Unwrap(call.ret).panic
    /\ Unwrap(call.ret).val.has_selfdestruct
         <=> \E k \in 1..Len(call.arg) : call.arg[k].raw_byte = 255
    /\ Unwrap(call.ret).val.has_delegatecall
         <=> \E k \in 1..Len(call.arg) : call.arg[k].raw_byte = 244
    /\ Unwrap(call.ret).val.has_create
         <=> \E k \in 1..Len(call.arg) : call.arg[k].raw_byte \in {240, 245}

\* C13: for every instruction sequence, analyze returns, and the analysis
\* it returns has complexity_score = 10 * B + 20 * E + 5 * W, where B is
\* the block count of the graph build returns for the same instructions,
\* E = external_calls and W = storage_writes; the report of decompile
\* therefore has security.complexity_score = 10 * block_count
\* + 20 * external_calls + 5 * storage_writes, which is 10 for input 0x00.
C13_Complexity ==
  LET value(u) == u.hi * 65536 + u.lo
  IN  /\ (call.fn = "analyze" /\ IsSome(call.ret)) =>
           /\ ~Unwrap(call.ret).panic
           /\ \A g \in build(call.arg) :
                /\ ~g.panic
                /\ value(Unwrap(call.ret).val.complexity_score)
                     = 10 * block_count(g.val)
                       + 20 * Unwrap(call.ret).val.external_calls
                       + 5 * Unwrap(call.ret).val.storage_writes
      /\ pc = "done" =>
           /\ IsSome(output)
           /\ value(Unwrap(output).security.complexity_score)
                = 10 * Unwrap(output).block_count
                  + 20 * Unwrap(output).security.external_calls
                  + 5 * Unwrap(output).security.storage_writes
           /\ bytecode = <<0>> =>
                value(Unwrap(output).security.complexity_score) = 10

\* C14: the complexity score is computed with saturating unsigned 32-bit
\* arithmetic: the expression never fails, it yields 10 * B + 20 * E + 5 * W
\* when that is at most 2^32 - 1, and exactly 2^32 - 1 (never a wrapped
\* value) when the sum or one of its intermediate products exceeds it.
C14_Saturating ==
  (call.fn = "complexity_score" /\ IsSome(call.ret)) =>
    LET B == call.arg[1]
        E == call.arg[2]
        W == call.arg[3]
        lo == (B % 65536) * 10 + (E % 65536) * 20 + (W % 65536) * 5
        hi == (B \div 65536) * 10 + (E \div 65536) * 20
                + (W \div 65536) * 5 + lo \div 65536
    IN  /\ ~Unwrap(call.ret).panic
        /\ Unwrap(call.ret).val
             = IF hi >= 65536 THEN U32(65535, 65535)
               ELSE U32(hi, lo % 65536)

\* C15: in the risk_indicators analyze returns, every "Self-destruct
\* capability" indicator precedes the "Delegatecall usage" indicator, which
\* precedes the "Multiple external calls" indicator, whatever the order of
\* the opcodes in the stream; "Delegatecall usage" appears exactly once if
\* the stream has a DELEGATECALL (0xF4) and never otherwise.
C15_IndicatorOrder ==
  (pc \notin {"disassemble", "build", "analyze"} /\ IsSome(cfg)) =>
    /\ IsSome(security)
    /\ LET ri == Unwrap(security).risk_indicators
           rank(name) ==
             CASE name = "Self-destruct capability" -> 1
               [] name = "Delegatecall usage" -> 2
               [] name = "Multiple external calls" -> 3
               [] OTHER -> 0
       IN  /\ \A k \in 1..Len(ri) : rank(ri[k].name) > 0
           /\ \A j \in 1..Len(ri) : \A k \in (j + 1)..Len(ri) :
                /\ rank(ri[j].name) <= rank(ri[k].name)
                /\ rank(ri[j].name) = rank(ri[k].name) => rank(ri[k].name) = 1
           /\ Cardinality({k \in 1..Len(ri) :
                             ri[k].name = "Delegatecall usage"})
                = IF Unwrap(security).has_delegatecall THEN 1 ELSE 0
           /\ Unwrap(security).has_delegatecall
                <=> \E k \in 1..Len(instructions) :
                      instructions[k].raw_byte = 244

\* analyze has returned all three kinds of indicator, two of them
\* "Self-destruct capability", for a stream whose DELEGATECALL comes before
\* its first SELFDESTRUCT
C15_Witness ==
  /\ pc = "report"
  /\ IsSome(security)
  /\ LET ri == Unwrap(security).risk_indicators
     IN  /\ Len(ri) = 4
         /\ ri[1].name = "Self-destruct capability"
         /\ ri[2].name = "Self-destruct capability"
         /\ ri[3].name = "Delegatecall usage"
         /\ ri[4].name = "Multiple external calls"
  /\ \E j \in 1..Len(instructions) :
       /\ instructions[j].raw_byte = 244
       /\ \A k \in 1..j : instructions[k].raw_byte # 255

\* C16: the analysis analyze returns has the "Multiple external calls"
\* indicator, of severity "medium", exactly once if the number E of
\* external calls (CALL, CALLCODE, DELEGATECALL, STATICCALL instructions)
\* is greater than 5 and not at all if E <= 5; its description starts with
\* the decimal numeral of E.
C16_MultipleCalls ==
  (pc \notin {"disassemble", "build", "analyze"} /\ IsSome(cfg)) =>
    /\ IsSome(security)
    /\ LET ri == Unwrap(security).risk_indicators
           E == Cardinality({k \in 1..Len(instructions) :
                  instructions[k].raw_byte \in {241, 242, 244, 250}})
           digit(d) ==
             <<"0", "1", "2", "3", "4", "5", "6", "7", "8", "9">>[d + 1]
           decimal(n) == IF n < 10 THEN digit(n)
                         ELSE digit(n \div 10) \o digit(n % 10)
           found == {k \in 1..Len(ri) :
                       ri[k].name = "Multiple external calls"}
       IN  /\ E < 100
           /\ Cardinality(found) = IF E > 5 THEN 1 ELSE 0
           /\ \A k \in found :
                /\ ri[k].severity = "medium"
                /\ ri[k].description
                     = decimal(E) \o " external calls - check for reentrancy"

\* analyze has returned the indicator for a stream of exactly six external
\* calls
C16_Witness ==
  /\ pc = "report"
  /\ IsSome(security)
  /\ Unwrap(security).external_calls = 6
  /\ \E k \in 1..Len(Unwrap(security).risk_indicators) :
       /\ Unwrap(security).risk_indicators[k].name
            = "Multiple external calls"
       /\ Unwrap(security).risk_indicators[k].description
            = "6 external calls - check for reentrancy"

----------------------------------------------------------------------------
(* Opcode table claims *)

\* C17: Opcode::is_dangerous returns true exactly for CALL, CALLCODE,
\* DELEGATECALL, STATICCALL, CREATE, CREATE2, SSTORE and SELFDESTRUCT and
\* false for every other opcode.
C17_Dangerous ==
  (call.fn = "is_dangerous" /\ IsSome(call.ret)) =>
    (Unwrap(call.ret)
       <=> call.arg \in {"CALL", "CALLCODE", "DELEGATECALL", "STATICCALL",
                         "CREATE", "CREATE2", "SSTORE", "SELFDESTRUCT"})

\* C18: Opcode::from is total over 0..=255, maps every assigned byte to its
\* own opcode - the environment block 0x30-0x48, the stack, memory, storage
\* and control block 0x50-0x5B (0x52 to MSTORE), LOG0..LOG4 (0xA0-0xA4) and
\* INVALID (0xFE) among them - and maps only unassigned bytes to UNKNOWN.
C18_FromAssigned ==
  (call.fn = "from" /\ IsSome(call.ret)) =>
    LET byte == call.arg
        opcode == Unwrap(call.ret)
        assigned == (0..4) \cup {32} \cup (48..72) \cup (80..91)
                      \cup (96..159) \cup (160..164) \cup (240..245)
                      \cup {250, 253, 254, 255}
    IN  /\ byte \in assigned <=> opcode # "UNKNOWN"
        /\ byte = 82 => opcode = "MSTORE"
        /\ byte = 254 => opcode = "INVALID"

----------------------------------------------------------------------------
(* Pipeline claims *)

\* C19: whenever decompile returns, its report has bytecode_size = len(b),
\* instruction_count = the number of instructions of disassemble(b),
\* block_count = the block count of the graph built from those
\* instructions and security = the analysis of those instructions; hence
\* block_count <= instruction_count <= bytecode_size.
C19_Report ==
  pc = "done" =>
    /\ IsSome(output)
    /\ LET o == Unwrap(output)
           instrs == disassemble(bytecode)
       IN  /\ o.bytecode_size = Len(bytecode)
           /\ o.instruction_count = Len(instrs)
           /\ \A g \in build(instrs) :
                ~g.panic /\ o.block_count = block_count(g.val)
           /\ [panic |-> FALSE, val |-> o.security] \in analyze(instrs)
           /\ o.block_count <= o.instruction_count
           /\ o.instruction_count <= o.bytecode_size

\* decompile has returned a report with fewer blocks than instructions and
\* fewer instructions than bytes, and more than one block
C19_Witness ==
  /\ pc = "done"
  /\ IsSome(output)
  /\ Unwrap(output).block_count >= 2
  /\ Unwrap(output).block_count < Unwrap(output).instruction_count
  /\ Unwrap(output).instruction_count < Unwrap(output).bytecode_size
  /\ Len(Unwrap(output).security.function_selectors) > 0

\* C20: the pipeline is deterministic: what a run has computed is a
\* function of its input alone.  The instruction sequence is
\* disassemble(b); build and analyze have exactly one outcome over all the
\* orders in which the unordered leader set may be iterated, and that
\* outcome is the graph and the analysis of the run; the blocks are listed
\* in ascending order of their start offsets.
C20_Deterministic ==
  /\ pc # "disassemble" => instructions = disassemble(bytecode)
  /\ pc = "build" => Cardinality(build(instructions)) = 1
  /\ pc = "analyze" => Cardinality(analyze(instructions)) = 1
  /\ IsSome(cfg) =>
       /\ build(instructions) = {[panic |-> FALSE, val |-> Unwrap(cfg)]}
       /\ \A n \in 1..(Len(Unwrap(cfg).graph) - 1) :
            Unwrap(cfg).graph[n].start_offset
              < Unwrap(cfg).graph[n + 1].start_offset
  /\ IsSome(security) =>
       analyze(instructions) = {[panic |-> FALSE, val |-> Unwrap(security)]}
  /\ IsSome(output) =>
       /\ Unwrap(output).security = Unwrap(security)
       /\ Unwrap(output).block_count = Len(Unwrap(cfg).graph)

\* decompile has returned for an input whose leader set has four members,
\* which the hash set may yield in twenty-four orders
C20_Witness ==
  /\ pc = "done"
  /\ IsSome(output)
  /\ Cardinality(Leaders(instructions)) = 4
  /\ Cardinality(Collected(Leaders(instructions))) = 24
  /\ Unwrap(output).block_count = 4

\* C21: a byte inside the immediate of a PUSHn instruction (n = raw byte -
\* 0x5F) is never decoded as an opcode: no instruction starts within the n
\* bytes that follow a PUSHn instruction, and such a byte contributes
\* nothing to the report or the graph; for input 61 00 FF the result is one
\* instruction, has_selfdestruct = false, no dangerous findings, one block.
C21_ImmediateNotDecoded ==
  LET width(r) == IF r >= 96 /\ r <= 127 THEN r - 95 ELSE 0
  IN  /\ pc # "disassemble" =>
           \A j \in 1..Len(instructions) : \A k \in 1..Len(instructions) :
             ~(/\ instructions[j].offset < instructions[k].offset
               /\ instructions[k].offset
                    <= instructions[j].offset
                         + width(instructions[j].raw_byte))
      /\ (bytecode = <<97, 0, 255>> /\ pc \in {"report", "done"}) =>
           /\ Len(instructions) = 1
           /\ ~Unwrap(security).has_selfdestruct
           /\ Unwrap(security).dangerous_opcodes = <<>>
           /\ block_count(Unwrap(cfg)) = 1

\* C22: for every instruction sequence, analyze returns, and
\* function_selectors has exactly one entry for each adjacent pair of
\* instructions (x, y) with x.raw_byte = 0x63, y.raw_byte = 0x14 and x
\* carrying an immediate, namely the selector of x's immediate, in the
\* order of the pairs and with duplicates kept; nothing else is reported.
C22_Selectors ==
  (call.fn = "analyze" /\ IsSome(call.ret)) =>
    /\ ~Unwrap(call.ret).panic
    /\ LET instrs == call.arg
           hex(x) == HexDigits[(x \div 16) + 1] \o HexDigits[(x % 16) + 1]
           padded(bytes) ==
             [k \in 1..4 |-> IF k > 4 - Len(bytes)
                             THEN bytes[k - (4 - Len(bytes))] ELSE 0]
           text(bytes) ==
             "0x" \o hex(padded(bytes)[1]) \o hex(padded(bytes)[2])
                  \o hex(padded(bytes)[3]) \o hex(padded(bytes)[4])
           matched(k) ==
             /\ instrs[k].raw_byte = 99
             /\ instrs[k + 1].raw_byte = 20
             /\ IsSome(instrs[k].argument)
           RECURSIVE expected(_)
           expected(k) ==
             IF k = 0 THEN <<>>
             ELSE expected(k - 1)
                    \o (IF matched(k)
                        THEN <<text(Unwrap(instrs[k].argument))>>
                        ELSE <<>>)
       IN  Unwrap(call.ret).val.function_selectors
             = expected(IF Len(instrs) = 0 THEN 0 ELSE Len(instrs) - 1)

----------------------------------------------------------------------------
(* Instruction claims *)

\* C23: arg_as_u32 reads an immediate of at most 4 bytes as a big-endian
\* unsigned 32-bit value after left-padding it with zero bytes to 4 bytes
\* and returns None for a longer or an absent immediate; arg_as_selector
\* returns "0x" followed by the eight lowercase hex digits of that value,
\* leading zeros included, and None where arg_as_u32 does.
C23_ArgAsU32 ==
  (call.fn \in {"arg_as_u32", "arg_as_selector"} /\ IsSome(call.ret)) =>
    LET a == call.arg.argument
        r == Unwrap(call.ret)
        n == Len(Unwrap(a))
        \* the j-th least significant byte of the padded immediate
        be(j) == IF j <= n THEN Unwrap(a)[n + 1 - j] ELSE 0
        hex(x) == HexDigits[(x \div 16) + 1] \o HexDigits[(x % 16) + 1]
    IN  IF IsSome(a) /\ n <= 4
        THEN IF call.fn = "arg_as_u32"
             THEN r = Some(U32(be(4) * 256 + be(3), be(2) * 256 + be(1)))
             ELSE r = Some("0x" \o hex(be(4)) \o hex(be(3))
                                \o hex(be(2)) \o hex(be(1)))
        ELSE r = None

\* arg_as_selector has returned "0x00001234" for the immediate [0x12, 0x34]
C23_Witness ==
  /\ pc = "returned"
  /\ call.fn = "arg_as_selector"
  /\ call.arg.argument = Some(<<18, 52>>)
  /\ call.ret = Some(Some("0x00001234"))

----------------------------------------------------------------------------
(* Findings and block claims *)

\* C24: for every instruction sequence, analyze returns, and
\* dangerous_opcodes has exactly one finding for each instruction whose
\* opcode is CALL, CALLCODE, STATICCALL, DELEGATECALL, SELFDESTRUCT, CREATE
\* or CREATE2 (bytes 0xF1, 0xF2, 0xFA, 0xF4, 0xFF, 0xF0, 0xF5), carrying
\* that instruction's offset and opcode, in instruction order and so with
\* strictly increasing offsets; SSTORE and every other opcode produce no
\* finding.
C24_Findings ==
  (call.fn = "analyze" /\ IsSome(call.ret)) =>
    /\ ~Unwrap(call.ret).panic
    /\ LET instrs == call.arg
           found == Unwrap(call.ret).val.dangerous_opcodes
           name(r) == CASE r = 241 -> "CALL"
                        [] r = 242 -> "CALLCODE"
                        [] r = 250 -> "STATICCALL"
                        [] r = 244 -> "DELEGATECALL"
                        [] r = 255 -> "SELFDESTRUCT"
                        [] r = 240 -> "CREATE"
                        [] r = 245 -> "CREATE2"
           RECURSIVE expected(_)
           expected(k) ==
             IF k = 0 THEN <<>>
             ELSE expected(k - 1)
                    \o (IF instrs[k].raw_byte
                             \in {241, 242, 250, 244, 255, 240, 245}
                        THEN <<<<instrs[k].offset, name(instrs[k].raw_byte)>>>>
                        ELSE <<>>)
       IN  /\ [n \in 1..Len(found) |-> <<found[n].offset, found[n].opcode>>]
                = expected(Len(instrs))
           /\ \A n \in 1..(Len(found) - 1) :
                found[n].offset < found[n + 1].offset

\* C25: every block of the graph build returns has start_offset equal to
\* the byte offset of its first instruction and end_offset equal to the
\* byte offset of its last instruction, so start_offset <= end_offset;
\* is_revert is true iff its last opcode is REVERT (0xFD) and is_return iff
\* its last opcode is RETURN (0xF3) or STOP (0x00); never both.
C25_BlockFields ==
  IsSome(cfg) =>
    \A n \in 1..Len(Unwrap(cfg).graph) :
      LET b == Unwrap(cfg).graph[n]
          m == Len(b.instructions)
      IN  /\ m > 0
          /\ \E k \in 1..Len(instructions) :
               /\ k + m - 1 <= Len(instructions)
               /\ b.instructions[1] = instructions[k]
               /\ b.instructions[m] = instructions[k + m - 1]
          /\ b.start_offset = b.instructions[1].offset
          /\ b.end_offset = b.instructions[m].offset
          /\ b.start_offset <= b.end_offset
          /\ b.is_revert <=> b.instructions[m].raw_byte = 253
          /\ b.is_return <=> b.instructions[m].raw_byte \in {243, 0}
          /\ ~(b.is_revert /\ b.is_return)

\* build has returned a graph with a block that ends in REVERT, one that
\* ends in RETURN, one that ends in STOP, one that ends in none of them,
\* and a block of more than one instruction
C25_Witness ==
  /\ pc = "analyze"
  /\ IsSome(cfg)
  /\ LET g == Unwrap(cfg).graph
         last(n) == g[n].instructions[Len(g[n].instructions)].raw_byte
     IN  /\ \E n \in 1..Len(g) : g[n].is_revert /\ last(n) = 253
         /\ \E n \in 1..Len(g) : g[n].is_return /\ last(n) = 243
         /\ \E n \in 1..Len(g) : g[n].is_return /\ last(n) = 0
         /\ \E n \in 1..Len(g) : ~g[n].is_return /\ ~g[n].is_revert
         /\ \E n \in 1..Len(g) : g[n].start_offset < g[n].end_offset

\* C26: every block of the graph build returns is a straight-line run: no
\* instruction but its last has opcode JUMP, JUMPI, STOP, RETURN, REVERT or
\* SELFDESTRUCT (0x56, 0x57, 0x00, 0xF3, 0xFD, 0xFF) and no instruction but
\* its first has opcode JUMPDEST (0x5B); the graph has no edges, and the
\* blocks index has exactly one key per block, the block's start_offset,
\* which it maps to the block's node.
C26_StraightLine ==
  IsSome(cfg) =>
    LET g == Unwrap(cfg).graph
    IN  /\ \A n \in 1..Len(g) :
             \A k \in 1..Len(g[n].instructions) :
               /\ k < Len(g[n].instructions) =>
                    g[n].instructions[k].raw_byte
                      \notin {86, 87, 0, 243, 253, 255}
               /\ k > 1 => g[n].instructions[k].raw_byte # 91
        /\ Unwrap(cfg).edges = {}
        /\ DOMAIN Unwrap(cfg).blocks = {g[n].start_offset : n \in 1..Len(g)}
        /\ Cardinality(DOMAIN Unwrap(cfg).blocks) = Len(g)
        /\ \A n \in 1..Len(g) : Unwrap(cfg).blocks[g[n].start_offset] = n - 1

\* build has returned three or more blocks: one that begins with a
\* JUMPDEST and has more instructions, one that ends with a JUMPI, and one
\* that begins right after a STOP, RETURN or REVERT
C26_Witness ==
  /\ pc = "analyze"
  /\ IsSome(cfg)
  /\ LET g == Unwrap(cfg).graph
         last(n) == g[n].instructions[Len(g[n].instructions)].raw_byte
     IN  /\ Len(g) >= 3
         /\ \E n \in 1..Len(g) :
              /\ g[n].instructions[1].raw_byte = 91
              /\ Len(g[n].instructions) >= 2
         /\ \E n \in 1..Len(g) : last(n) = 87
         /\ \E n \in 1..(Len(g) - 1) :
              /\ last(n) \in {0, 243, 253}
              /\ g[n + 1].instructions[1].raw_byte # 91

====
